---- MODULE Spec2Model ----
(***************************************************************************)
(* Lead qualification, alert dispatch and lead lifecycle of the RealBoost  *)
(* backend (src/backend).  One agent's lead is followed through creation,  *)
(* background profile scoring, qualification turns, PATCH updates, reading *)
(* the conversation and deletion.  The database is modelled with its       *)
(* unit-of-work boundary: rows flushed by a request stay private to it     *)
(* until get_db commits, and disappear when get_db rolls back.             *)
(***************************************************************************)
EXTENDS Integers, Sequences, FiniteSets, TLC

(* ---- program constants ------------------------------------------------ *)

\* Agent.ai_hot_lead_score_threshold default (models/database.py:104)
DEFAULT_THRESHOLD == 75
\* Lead.ai_score default (models/database.py:139)
DEFAULT_SCORE == 0
\* score_lead_from_profile's fallback (services/ai_service.py:364)
DEFAULT_PROFILE_SCORE == 25
\* bounds of min(100, max(0, ..)) in score_lead_from_profile (ai_service.py:362)
SCORE_MIN == 0
SCORE_MAX == 100
\* .limit(50) of the history query (routers/leads.py:226)
HISTORY_LIMIT == 50
\* conversation_history[-20:] (services/ai_service.py:135)
CONTEXT_WINDOW == 20

\* class LeadStatus (models/database.py:33-39)
LeadStatus == {"new", "cold", "warm", "hot", "converted", "lost"}
\* class SubscriptionStatus (models/database.py:68-72)
SubscriptionStatus == {"active", "past_due", "canceled", "trialing"}
\* class MessageRole (models/database.py:57-61)
MessageRole == {"ai", "lead", "agent", "system"}

(* ---- bounds of the model ---------------------------------------------- *)

\* room in a lead's conversation: a turn is begun only while its two
\* messages still fit
MaxMsgs == 4

(* ---- inputs ------------------------------------------------------------ *)

\* A missing JSON key is the empty sequence, a present one a 1-sequence.
Absent == <<>>
Get(field, default) == IF field = Absent THEN default ELSE field[1]

\* scores the model's tail may carry: below range, below every threshold,
\* above the default threshold, above range
TailScores == {-5, 40, 90, 150}
\* status strings the model's tail may carry: members of LeadStatus, the
\* empty string and a string outside the enumeration
TailStatuses == {"warm", "hot", "", "qualified"}
\* thresholds an agent may configure through PATCH /me
Thresholds == {40, DEFAULT_THRESHOLD}

\* Text is a sequence of tokens; " " is whitespace.
ReplyTexts == {<<"Happy to help!", " ">>}
InboundTexts == {<<"I'm pre-approved">>}

\* The model's reply: the text before the marker and what follows the
\* [SCORE_UPDATE: marker.  kind "none": no marker; "badjson": the marker
\* followed by text json.loads rejects; "object": a JSON object.
TailObjects ==
  [kind : {"object"}, text : ReplyTexts,
   score : {Absent} \cup {<<s>> : s \in TailScores},
   status : {Absent} \cup {<<s>> : s \in TailStatuses},
   alert_agent : {Absent, <<TRUE>>, <<FALSE>>},
   key_findings : {Absent, <<<<"pre-approved">>>>}]
NoTail ==
  [kind : {"none", "badjson"}, text : ReplyTexts,
   score : {Absent}, status : {Absent}, alert_agent : {Absent},
   key_findings : {Absent}]
Replies == TailObjects \cup NoTail

(* ---- services/ai_service.py: qualify_lead ------------------------------ *)

RECURSIVE StripLeft(_)
StripLeft(t) == IF t # <<>> /\ Head(t) = " " THEN StripLeft(Tail(t)) ELSE t
RECURSIVE StripRight(_)
StripRight(t) ==
  IF t # <<>> /\ t[Len(t)] = " " THEN StripRight(SubSeq(t, 1, Len(t) - 1)) ELSE t
\* str.strip()
Strip(t) == StripRight(StripLeft(t))

\* lines 153-163: score_data is the parsed object, or None when the marker
\* is missing or json.loads raised (the exception is caught and logged)
ParsedTail(reply) == reply.kind = "object"
\* "... if score_data else ...": None and the empty dict are falsy
ScoreDataTruthy(reply) ==
  /\ ParsedTail(reply)
  /\ \/ reply.score # Absent
     \/ reply.status # Absent
     \/ reply.alert_agent # Absent
     \/ reply.key_findings # Absent

\* line 156: the marker that opens the structured tail
SCORE_MARKER == "[SCORE_UPDATE:"
\* what follows the marker in the raw reply: a JSON object and the closing
\* bracket, or text json.loads rejects (here a tail that repeats the marker)
TailTokens(reply) ==
  CASE reply.kind = "object" -> <<"{json}", "]">>
    [] reply.kind = "nonobject" -> <<"5", "]">>
    [] OTHER -> <<"{", SCORE_MARKER, "]">>
\* line 148: full_response, the raw reply of the model
FullResponse(reply) ==
  IF reply.kind = "none" THEN reply.text
  ELSE reply.text \o <<SCORE_MARKER>> \o TailTokens(reply)
\* line 156: "[SCORE_UPDATE:" in full_response
HasMarker(raw) == \E i \in 1..Len(raw) : raw[i] = SCORE_MARKER
\* line 157: full_response.split("[SCORE_UPDATE:")[0]
RECURSIVE BeforeMarker(_)
BeforeMarker(raw) ==
  IF raw = <<>> \/ Head(raw) = SCORE_MARKER THEN <<>>
  ELSE <<Head(raw)>> \o BeforeMarker(Tail(raw))

\* mutant: the raw reply is shown as it came
DisplayResponse_KeepsTail(reply) == FullResponse(reply)
\* lines 154-158
DisplayResponse(reply) ==
  IF HasMarker(FullResponse(reply))
  THEN Strip(BeforeMarker(FullResponse(reply)))
  ELSE FullResponse(reply)

\* mutant: a turn without an adopted tail resets the score to the default
NewScore_ResetsWithoutTail(reply, lead) ==
  IF ScoreDataTruthy(reply) THEN Get(reply.score, lead.ai_score) ELSE DEFAULT_SCORE
\* line 166
NewScore(reply, lead) ==
  IF ScoreDataTruthy(reply) THEN Get(reply.score, lead.ai_score) ELSE lead.ai_score
\* line 167
NewStatus(reply, lead) ==
  IF ScoreDataTruthy(reply) THEN Get(reply.status, lead.status) ELSE lead.status
\* mutant: a tail without the alert_agent key counts as an alert
ReportedAlert_DefaultsTrue(reply) ==
  IF ScoreDataTruthy(reply) THEN Get(reply.alert_agent, TRUE) ELSE FALSE
\* line 168
ReportedAlert(reply) ==
  IF ScoreDataTruthy(reply) THEN Get(reply.alert_agent, FALSE) ELSE FALSE
\* line 185
KeyFindings(reply) ==
  IF ScoreDataTruthy(reply) THEN Get(reply.key_findings, <<>>) ELSE <<>>

\* mutant: the string is taken as it is
StatusRaises_AcceptsAny(new_status) == FALSE
\* lines 171-172: LeadStatus(new_status) raises ValueError for a string that
\* is no member of the enumeration; an empty string is falsy and skipped
StatusRaises(new_status) == new_status # "" /\ new_status \notin LeadStatus
AdoptedStatus(new_status, lead) ==
  IF new_status # "" THEN new_status ELSE lead.status

\* A JSON number n is the field <<n>>; a JSON string in the place of a number
\* is the field <<"str", text>>.
JsonString(text) == <<"str", text>>
IsJsonNumber(field) == Len(field) = 1
\* line 166: json.loads returned a truthy value that is no object (kind
\* "nonobject", such as 5 or "ok"), and score_data.get raises AttributeError
NonObjectRaises(reply) == reply.kind = "nonobject"
\* line 175: new_score >= threshold raises TypeError when the adopted score
\* is not a number
ScoreRaises(reply) ==
  ScoreDataTruthy(reply) /\ reply.score # Absent /\ ~IsJsonNumber(reply.score)

\* mutant: the test does not look at the score
HotLeadDetected_IgnoresScore(new_score, threshold, status) == status # "hot"
\* line 175: the hot-lead threshold test, made on the lead as already updated
HotLeadDetected(new_score, threshold, status) ==
  new_score >= threshold /\ status # "hot"

\* lines 165-188: the lead after the turn and the result dict; raised when
\* the function leaves by an exception (re-raised at line 192)
QualifyLead(lead, threshold, reply) ==
  LET new_score == NewScore(reply, lead)
      new_status == NewStatus(reply, lead)
      alert == ReportedAlert(reply)
      raised == NonObjectRaises(reply) \/ StatusRaises(new_status)
                  \/ ScoreRaises(reply)
      status1 == AdoptedStatus(new_status, lead)
      hot == ~raised /\ HotLeadDetected(new_score, threshold, status1)
  IN  [raised |-> raised,
       ai_score |-> new_score,
       status |-> IF hot THEN "hot" ELSE status1,
       result |-> [ai_response |-> DisplayResponse(reply),
                   score |-> new_score,
                   status |-> new_status,
                   alert_agent |-> IF hot THEN TRUE ELSE alert,
                   key_findings |-> KeyFindings(reply)]]

\* lines 135-137: the history entries handed to the model
RECURSIVE LastN(_, _)
LastN(s, n) == IF Len(s) <= n THEN s ELSE LastN(Tail(s), n)
\* mutant: only the AI's messages become assistant entries
ModelRole_AiOnly(role) == IF role = "ai" THEN "assistant" ELSE "user"
\* line 136
ModelRole(role) == IF role = "lead" THEN "user" ELSE "assistant"
\* line 132: build_qualification_system_prompt(agent, lead)
SystemPrompt == <<"system prompt">>
\* lines 134-138: the messages argument of the model call, for the history
\* rows and the incoming text
ModelMessages(history, incoming) ==
  LET context == LastN(history, CONTEXT_WINDOW)
  IN  <<[role |-> "system", content |-> SystemPrompt]>>
      \o [i \in 1..Len(context) |->
            [role |-> ModelRole(context[i].role), content |-> context[i].content]]
      \o <<[role |-> "user", content |-> incoming]>>

(* ---- services/ai_service.py: score_lead_from_profile ------------------- *)

\* The reply is the sequence of characters of the model's answer.
Digits == {"0", "1", "2", "3", "4", "5", "6", "7", "8", "9"}
\* str.isdigit
IsDigit(c) == c \in Digits
DigitValue(c) ==
  CASE c = "0" -> 0 [] c = "1" -> 1 [] c = "2" -> 2 [] c = "3" -> 3
    [] c = "4" -> 4 [] c = "5" -> 5 [] c = "6" -> 6 [] c = "7" -> 7
    [] c = "8" -> 8 [] c = "9" -> 9
\* int(''.join(filter(str.isdigit, score_text)))
RECURSIVE DigitsValue(_, _)
DigitsValue(t, acc) ==
  IF t = <<>> THEN acc
  ELSE IF IsDigit(Head(t)) THEN DigitsValue(Tail(t), 10 * acc + DigitValue(Head(t)))
  ELSE DigitsValue(Tail(t), acc)
HasDigit(t) == \E i \in 1..Len(t) : IsDigit(t[i])
Min(a, b) == IF a <= b THEN a ELSE b
Max(a, b) == IF a >= b THEN a ELSE b
\* lines 354-364: ok = FALSE when the model call raised
ScoreLeadFromProfile(ok, text) ==
  IF ok /\ HasDigit(text)
  THEN Min(SCORE_MAX, Max(SCORE_MIN, DigitsValue(text, 0)))
  ELSE DEFAULT_PROFILE_SCORE
ProfileReplies == {<<"8", "0">>, <<"-", "5">>, <<"1", "5", "0">>, <<"n", "/", "a">>}
\* the replies used in the lifecycle specification
LifecycleProfileReplies == {<<"8", "0">>, <<"n", "/", "a">>}
\* the statuses PATCH /leads/{id} sets in the lifecycle specification
PatchStatuses == {"hot", "converted"}

(* ---- services/notification_service.py: send_hot_lead_alert ------------- *)

\* mutant: the Twilio exception is not caught
SendHotLeadSms_Uncaught(fails) ==
  [attempts |-> 1, sent |-> ~fails, raised |-> fails]
\* lines 94-102: the Twilio call is made once; its exception is caught
SendHotLeadSms(fails) == [attempts |-> 1, sent |-> ~fails, raised |-> FALSE]
\* lines 166-176: the SendGrid call is made once; its exception is caught
SendHotLeadEmail(fails) == [attempts |-> 1, sent |-> ~fails, raised |-> FALSE]
Skipped == [attempts |-> 0, sent |-> FALSE, raised |-> FALSE]

\* mutant: the SMS branch does not test agent.phone
SendHotLeadAlert_IgnoresPhone(agent, smsFails, emailFails) ==
  LET sms == IF agent.notify_hot_lead_sms
             THEN SendHotLeadSms(smsFails) ELSE Skipped
      email == IF sms.raised THEN Skipped
               ELSE IF agent.notify_hot_lead_email /\ agent.email
               THEN SendHotLeadEmail(emailFails) ELSE Skipped
  IN  [sms |-> sms.attempts, email |-> email.attempts,
       sms_sent |-> sms.sent, email_sent |-> email.sent,
       raised |-> sms.raised \/ email.raised]
\* lines 42-67: SMS first, then email unless the SMS step raised
SendHotLeadAlert(agent, smsFails, emailFails) ==
  LET sms == IF agent.notify_hot_lead_sms /\ agent.phone
             THEN SendHotLeadSms(smsFails) ELSE Skipped
      email == IF sms.raised THEN Skipped
               ELSE IF agent.notify_hot_lead_email /\ agent.email
               THEN SendHotLeadEmail(emailFails) ELSE Skipped
  IN  [sms |-> sms.attempts, email |-> email.attempts,
       sms_sent |-> sms.sent, email_sent |-> email.sent,
       raised |-> sms.raised \/ email.raised]

(* ---- state -------------------------------------------------------------- *)

VARIABLES
  agent,     \* the agent's row: threshold, notification toggles, destinations
  lead,      \* the lead's committed row; exists = FALSE before creation
  messages,  \* message rows in created_at order; tx is "c" once committed,
             \* else the request whose session flushed the row
  scoring,   \* the background profile scoring of create_lead is pending
  req,       \* per request slot: the qualification request in flight or
             \* last served.  pc: idle, calling (the model call is
             \* outstanding), call_failed (the model call raised), raised
             \* (qualify_lead raised after the reply), responded, alerted
             \* (the alert task has run).  agent, lead: the rows as the
             \* session loaded them; after: the session's lead when
             \* qualify_lead returned; text: the request's content;
             \* lead_msg: id of the inbound row;
             \* sent: ids of the history rows given to the model; prompt:
             \* the messages argument of the model call; ai_msg: id of
             \* the AI row;
             \* caller, subscription, op, http: for a request made by id
             \* on behalf of a named agent, the agent's id and
             \* subscription_status, the operation and the status
             \* code of the response (0 while the request is in flight);
             \* event: the event of a webhook request, as a 1-sequence;
             \* replays, replay: the calls of qualify_lead repeated on the
             \* request's lead object and the result of the last one
  ad_accounts,  \* the ad_accounts rows: agent_id, platform, monthly_budget
  logs,         \* the ad_optimization_logs rows by id: agent_id, from_platform,
                \* to_platform, amount_shifted (a 1-sequence, or Absent for
                \* NULL), was_applied
  leads,        \* the leads rows beside the one of the conversation, in
                \* creation order: id, agent_id, source, status
  enrollments   \* the campaign_enrollments rows: lead_id, campaign_id

vars ==
  <<agent, lead, messages, scoring, req, ad_accounts, logs, leads, enrollments>>

\* the tables the operations on one lead's conversation never touch
tables == <<ad_accounts, logs, leads, enrollments>>
InitTables ==
  /\ ad_accounts = {}
  /\ logs = <<>>
  /\ leads = <<>>
  /\ enrollments = {}

NoLead ==
  [exists |-> FALSE, ai_score |-> DEFAULT_SCORE, status |-> "new",
   last_contacted_at |-> FALSE]
NoResult ==
  [ai_response |-> <<>>, score |-> 0, status |-> "", alert_agent |-> FALSE,
   key_findings |-> <<>>]
NoDispatch ==
  [sms |-> 0, email |-> 0, sms_sent |-> FALSE, email_sent |-> FALSE,
   raised |-> FALSE]
NoReply ==
  [kind |-> "none", text |-> <<>>, score |-> Absent, status |-> Absent,
   alert_agent |-> Absent, key_findings |-> Absent]
Idle ==
  [pc |-> "idle", agent |-> [ai_hot_lead_score_threshold |-> DEFAULT_THRESHOLD,
                             notify_hot_lead_sms |-> TRUE,
                             notify_hot_lead_email |-> TRUE,
                             phone |-> FALSE, email |-> TRUE,
                             subscription_status |-> "trialing"],
   lead |-> NoLead, after |-> NoLead, text |-> <<>>, lead_msg |-> 0, sent |-> <<>>,
   prompt |-> <<>>, ai_msg |-> 0,
   model_calls |-> 0,
   reply |-> NoReply, result |-> NoResult, handoffs |-> 0, dispatch |-> NoDispatch,
   replays |-> 0, replay |-> NoResult, caller |-> "", subscription |-> "",
   op |-> "", http |-> 0, event |-> <<>>]

\* rows another session can see
Committed(rows) == SelectSeq(rows, LAMBDA m : m.tx = "c")
RowsOf(rows, r) == SelectSeq(rows, LAMBDA m : m.tx = r)
RECURSIVE MaxId(_)
MaxId(rows) == IF rows = <<>> THEN 0 ELSE Max(Head(rows).id, MaxId(Tail(rows)))
Ids(rows) == [i \in 1..Len(rows) |-> rows[i].id]
InFlight == {r \in DOMAIN req : req[r].pc = "calling"}

\* middleware/auth.py lines 77-83
RequireActiveSubscription(c) == c.subscription_status \in {"active", "trialing"}

\* class Agent defaults (models/database.py:104-109); register stores the
\* optional phone and starts the trial (routers/agents.py:77-88)
NewAgent(phone) ==
  [ai_hot_lead_score_threshold |-> DEFAULT_THRESHOLD,
   notify_hot_lead_sms |-> TRUE, notify_hot_lead_email |-> TRUE,
   phone |-> phone, email |-> TRUE, subscription_status |-> "trialing"]

\* The state after construction: an agent registered with a phone, no lead.
Init ==
  /\ InitTables
  /\ agent = NewAgent(TRUE)
  /\ lead = NoLead
  /\ messages = <<>>
  /\ scoring = FALSE
  /\ req = [r \in {"r1"} |-> Idle]

(* ---- models/database.py: get_db ----------------------------------------- *)

\* mutant: the commit loses the rows flushed before it
Commit_DropsFlushed(rows, r) == SelectSeq(rows, LAMBDA m : m.tx # r)
\* lines 329-330: the session's rows become visible to every session
Commit(rows, r) == [i \in 1..Len(rows) |->
                     IF rows[i].tx = r THEN [rows[i] EXCEPT !.tx = "c"] ELSE rows[i]]
\* mutant: a failed request keeps what it flushed
Rollback_KeepsFlushed(rows, r) ==
  [i \in 1..Len(rows) |->
     IF rows[i].tx = r THEN [rows[i] EXCEPT !.tx = "c"] ELSE rows[i]]
\* lines 331-333: the session's rows are discarded
Rollback(rows, r) == SelectSeq(rows, LAMBDA m : m.tx # r)
\* mutant: the UPDATE carries every column
Written_WholeRow(stored, loaded, new) == new
\* The UPDATE a commit issues for a loaded row carries the columns whose
\* value differs from the loaded one; the others keep the stored value.
Written(stored, loaded, new) == IF new # loaded THEN new ELSE stored

(* ---- routers/leads.py ---------------------------------------------------- *)

\* lines 225-231: select ... order_by(Message.created_at).limit(50)
ConversationHistory(rows) ==
  SubSeq(Committed(rows), 1, Min(Len(Committed(rows)), HISTORY_LIMIT))
\* services/ai_service.py line 135: conversation_history[-20:]
ModelContext(history) == LastN(history, CONTEXT_WINDOW)

\* lines 150-167: POST /leads/
CreateLead ==
  /\ RequireActiveSubscription(agent)
  /\ ~lead.exists
  /\ lead' = [exists |-> TRUE, ai_score |-> DEFAULT_SCORE, status |-> "new",
              last_contacted_at |-> FALSE]
  /\ scoring' = TRUE
  /\ UNCHANGED <<agent, messages, req>>
  /\ UNCHANGED tables

\* lines 341-348: the background task of create_lead, run after the
\* response; the lead it loaded carries the score of creation
ScoreLeadBackground(ok, text) ==
  /\ scoring
  /\ lead.exists
  /\ lead' = [lead EXCEPT !.ai_score =
                Written(lead.ai_score, DEFAULT_SCORE, ScoreLeadFromProfile(ok, text))]
  /\ scoring' = FALSE
  /\ UNCHANGED <<agent, messages, req>>
  /\ UNCHANGED tables

\* lines 183-196: PATCH /leads/{id}; of LeadUpdate's fields only status is
\* part of this model's lead
UpdateLead(status) ==
  /\ lead.exists
  /\ lead' = [lead EXCEPT !.status = status]
  /\ UNCHANGED <<agent, messages, scoring, req>>
  /\ UNCHANGED tables

\* lines 199-206: DELETE /leads/{id}; the messages go with the lead
\* (cascade, models/database.py:172).  The delete waits for the requests
\* whose flushed message rows reference the lead.
DeleteLead ==
  /\ lead.exists
  /\ InFlight = {}
  /\ lead' = NoLead
  /\ messages' = <<>>
  /\ scoring' = FALSE
  /\ UNCHANGED <<agent, req>>
  /\ UNCHANGED tables

\* mutant: every row the session loaded is marked unread
MarkRead_AllUnread(m) == IF m.tx = "c" THEN [m EXCEPT !.is_read = FALSE] ELSE m
\* lines 293-296: of the rows the session loaded (the committed ones),
\* those of role lead get is_read = True
MarkRead(m) ==
  IF m.tx = "c" /\ m.role = "lead" THEN [m EXCEPT !.is_read = TRUE] ELSE m

\* lines 279-307: GET /leads/{id}/messages marks the lead's messages read
GetConversation ==
  /\ lead.exists
  /\ messages' = [i \in 1..Len(messages) |-> MarkRead(messages[i])]
  /\ UNCHANGED <<agent, lead, scoring, req>>
  /\ UNCHANGED tables

\* a slot takes a new request once its request and the background task
\* that request handed off are over
SlotFree(r) ==
  \/ req[r].pc \in {"idle", "call_failed", "raised", "alerted"}
  \/ req[r].pc = "responded" /\ req[r].handoffs = 0
\* a slot whose last request was answered takes the next one
Ready(r) == SlotFree(r) \/ req[r].pc = "served"

\* lines 209-244: POST /leads/{id}/qualify up to the model call: the lead
\* and the history are loaded, the inbound message is flushed, the model
\* is invoked with the last entries of the history
QualifyBegin(r, text, cap) ==
  /\ RequireActiveSubscription(agent)
  /\ lead.exists
  /\ SlotFree(r)
  /\ Len(messages) + Cardinality(InFlight) + 2 <= cap
  /\ messages' = Append(messages,
        [id |-> MaxId(messages) + 1, role |-> "lead", content |-> text,
         is_read |-> FALSE, score_at_time |-> Absent,
         triggered_hot_lead_alert |-> FALSE, tx |-> r])
  /\ req' = [req EXCEPT ![r] =
        [Idle EXCEPT !.pc = "calling", !.agent = agent, !.lead = lead,
                     !.after = lead, !.text = text,
                     !.lead_msg = MaxId(messages) + 1,
                     !.sent = Ids(ModelContext(ConversationHistory(messages))),
                     !.prompt = ModelMessages(ConversationHistory(messages), text),
                     !.model_calls = 1]]
  /\ UNCHANGED <<agent, lead, scoring>>
  /\ UNCHANGED tables

\* services/ai_service.py lines 190-192 and get_db: the model call raised;
\* the exception crosses the handler and the session is rolled back
ModelFails(r) ==
  /\ req[r].pc = "calling"
  /\ messages' = Rollback(messages, r)
  /\ req' = [req EXCEPT ![r].pc = "call_failed"]
  /\ UNCHANGED <<agent, lead, scoring>>
  /\ UNCHANGED tables

\* lines 244-276 and get_db: the model replied; qualify_lead updates the
\* loaded lead, the AI message is added, the alert task is handed off when
\* alert_agent is set, and the session commits.  An exception inside
\* qualify_lead rolls the session back.
ModelReplies(r, reply) ==
  /\ req[r].pc = "calling"
  /\ LET q == QualifyLead(req[r].lead, req[r].agent.ai_hot_lead_score_threshold, reply)
         ai_msg == [id |-> MaxId(messages) + 1, role |-> "ai",
                    content |-> q.result.ai_response, is_read |-> TRUE,
                    score_at_time |-> <<q.result.score>>,
                    triggered_hot_lead_alert |-> q.result.alert_agent,
                    tx |-> "c"]
     IN IF q.raised
        THEN /\ messages' = Rollback(messages, r)
             /\ req' = [req EXCEPT ![r].pc = "raised", ![r].reply = reply]
             /\ lead' = lead
        ELSE /\ messages' = Append(Commit(messages, r), ai_msg)
             /\ lead' = [exists |-> TRUE,
                         ai_score |-> Written(lead.ai_score, req[r].lead.ai_score, q.ai_score),
                         status |-> Written(lead.status, req[r].lead.status, q.status),
                         last_contacted_at |-> TRUE]
             /\ req' = [req EXCEPT ![r].pc = "responded", ![r].reply = reply,
                          ![r].after = [req[r].lead EXCEPT !.ai_score = q.ai_score,
                                                          !.status = q.status,
                                                          !.last_contacted_at = TRUE],
                          ![r].result = q.result,
                          ![r].ai_msg = MaxId(messages) + 1,
                          ![r].handoffs = IF q.result.alert_agent THEN 1 ELSE 0]
  /\ UNCHANGED <<agent, scoring>>
  /\ UNCHANGED tables

\* lines 262-268: the background task send_hot_lead_alert, run after the
\* response with the agent and lead objects of the request
SendAlert(r, smsFails, emailFails) ==
  /\ req[r].pc = "responded"
  /\ req[r].handoffs > 0
  /\ req' = [req EXCEPT ![r].pc = "alerted",
               ![r].dispatch = SendHotLeadAlert(req[r].agent, smsFails, emailFails)]
  /\ UNCHANGED <<agent, lead, messages, scoring>>
  /\ UNCHANGED tables

\* replies of the model in the lifecycle specification
TailReply(score, status, alert_agent, key_findings) ==
  [kind |-> "object", text |-> <<"Happy to help!", " ">>, score |-> score,
   status |-> status, alert_agent |-> alert_agent, key_findings |-> key_findings]
TurnReplies ==
  { [NoReply EXCEPT !.text = <<"Happy to help!", " ">>],
    [NoReply EXCEPT !.kind = "badjson", !.text = <<"Happy to help!", " ">>],
    TailReply(<<90>>, <<"hot">>, <<TRUE>>, <<<<"pre-approved">>>>),
    TailReply(<<40>>, <<"warm">>, Absent, Absent),
    TailReply(<<90>>, <<"warm">>, <<FALSE>>, Absent),
    TailReply(<<150>>, Absent, <<FALSE>>, Absent),
    TailReply(<<-5>>, <<"qualified">>, Absent, Absent) }

Next ==
  \/ CreateLead
  \/ \E ok \in BOOLEAN, text \in LifecycleProfileReplies : ScoreLeadBackground(ok, text)
  \/ \E status \in PatchStatuses : UpdateLead(status)
  \/ DeleteLead
  \/ GetConversation
  \/ \E r \in DOMAIN req, text \in InboundTexts : QualifyBegin(r, text, MaxMsgs)
  \/ \E r \in DOMAIN req : ModelFails(r)
  \/ \E r \in DOMAIN req, reply \in TurnReplies : ModelReplies(r, reply)
  \/ \E r \in DOMAIN req, smsFails \in BOOLEAN, emailFails \in BOOLEAN :
        SendAlert(r, smsFails, emailFails)

Spec == Init /\ [][Next]_vars

(* ---- one qualification request from any lead and agent ------------------ *)

\* scores a lead may carry before a turn
PriorScores == {DEFAULT_SCORE, 40, 90, 150}

\* the rows of k completed turns, each leaving score s on its AI message
RECURSIVE Conversation(_, _)
Conversation(k, s) ==
  IF k = 0 THEN <<>>
  ELSE Conversation(k - 1, s) \o
       << [id |-> 2 * k - 1, role |-> "lead", content |-> <<"I'm pre-approved">>,
           is_read |-> FALSE, score_at_time |-> Absent,
           triggered_hot_lead_alert |-> FALSE, tx |-> "c"],
          [id |-> 2 * k, role |-> "ai", content |-> <<"Happy to help!">>,
           is_read |-> TRUE, score_at_time |-> <<s>>,
           triggered_hot_lead_alert |-> FALSE, tx |-> "c"] >>

\* A lead after one completed turn, with any score and status (PATCH sets
\* any status), and an agent with any configuration PATCH /me can set.
InitTurn ==
  /\ InitTables
  /\ agent \in [ai_hot_lead_score_threshold : Thresholds,
                 notify_hot_lead_sms : BOOLEAN, notify_hot_lead_email : BOOLEAN,
                 phone : BOOLEAN, email : {TRUE},
                 subscription_status : {"trialing"}]
  /\ lead \in [exists : {TRUE}, ai_score : PriorScores, status : LeadStatus,
                last_contacted_at : {TRUE}]
  /\ messages = Conversation(1, lead.ai_score)
  /\ scoring = FALSE
  /\ req = [r \in {"r1"} |-> Idle]

NextTurn ==
  \/ \E r \in DOMAIN req, text \in InboundTexts : QualifyBegin(r, text, MaxMsgs)
  \/ \E r \in DOMAIN req : ModelFails(r)
  \/ \E r \in DOMAIN req, reply \in Replies : ModelReplies(r, reply)
  \/ \E r \in DOMAIN req, smsFails \in BOOLEAN, emailFails \in BOOLEAN :
        SendAlert(r, smsFails, emailFails)

SpecTurn == InitTurn /\ [][NextTurn]_vars

(* ---- a qualification request on a long conversation --------------------- *)

\* completed turns of the conversation the request finds
MaxHistoryTurns == 26
HistoryTurns == {0, 5, 10, MaxHistoryTurns - 1, MaxHistoryTurns}

InitHistory ==
  /\ InitTables
  /\ agent = NewAgent(TRUE)
  /\ \E k \in HistoryTurns :
        /\ messages = Conversation(k, 40)
        /\ lead = [exists |-> TRUE, ai_score |-> IF k = 0 THEN DEFAULT_SCORE ELSE 40,
                   status |-> IF k = 0 THEN "new" ELSE "warm",
                   last_contacted_at |-> k > 0]
  /\ scoring = FALSE
  /\ req = [r \in {"r1"} |-> Idle]

NextHistory ==
  \/ \E r \in DOMAIN req, text \in InboundTexts :
        /\ Len(messages) \in {2 * k : k \in HistoryTurns}
        /\ QualifyBegin(r, text, 2 * MaxHistoryTurns + 2)
  \/ \E r \in DOMAIN req : ModelFails(r)
  \/ \E r \in DOMAIN req, reply \in TurnReplies : ModelReplies(r, reply)
  \/ \E r \in DOMAIN req, smsFails \in BOOLEAN, emailFails \in BOOLEAN :
        SendAlert(r, smsFails, emailFails)
  \/ GetConversation

SpecHistory == InitHistory /\ [][NextHistory]_vars

(* ---- qualify_lead called again with the same arguments ------------------ *)

\* services/ai_service.py lines 121-188: qualify_lead is called once more
\* with the agent, lead object, message and history of the request, and
\* the model returns the reply it returned before.  The lead object is the
\* one the first call assigned to (lines 170-176).
Replay(r) ==
  /\ req[r].pc = "responded"
  /\ req[r].replays = 0
  /\ LET q == QualifyLead(req[r].after, req[r].agent.ai_hot_lead_score_threshold,
                          req[r].reply)
     IN  /\ ~q.raised
         /\ req' = [req EXCEPT ![r].replays = 1, ![r].replay = q.result,
                               ![r].after.ai_score = q.ai_score,
                               ![r].after.status = q.status]
  /\ UNCHANGED <<agent, lead, messages, scoring>>
  /\ UNCHANGED tables

NextReplay ==
  \/ \E r \in DOMAIN req, text \in InboundTexts : QualifyBegin(r, text, MaxMsgs)
  \/ \E r \in DOMAIN req, reply \in Replies : ModelReplies(r, reply)
  \/ \E r \in DOMAIN req : Replay(r)

SpecReplay == InitTurn /\ [][NextReplay]_vars

(* ---- the text shown for a reply ----------------------------------------- *)

\* reply texts with whitespace around them, and empty ones
DisplayTexts ==
  {<<"Happy to help!", " ">>, <<" ", "Sure", " ", "thing">>, <<" ">>, <<>>}
DisplayReplies ==
  {[NoReply EXCEPT !.kind = k, !.text = t] :
      k \in {"none", "badjson"}, t \in DisplayTexts}
  \cup {[TailReply(<<40>>, <<"warm">>, Absent, Absent) EXCEPT !.text = t] :
      t \in DisplayTexts}

NextDisplay ==
  \/ \E r \in DOMAIN req, text \in InboundTexts : QualifyBegin(r, text, MaxMsgs)
  \/ \E r \in DOMAIN req, reply \in DisplayReplies : ModelReplies(r, reply)

SpecDisplay == InitTurn /\ [][NextDisplay]_vars

(* ---- tails that are valid JSON of the wrong shape ------------------------ *)

\* a status outside LeadStatus, a score that is a string, a value that is no
\* object; and two well-formed replies beside them
SchemaViolations ==
  { TailReply(<<90>>, <<"qualified">>, Absent, Absent),
    TailReply(JsonString("high"), <<"warm">>, Absent, Absent),
    [NoReply EXCEPT !.kind = "nonobject", !.text = <<"Happy to help!", " ">>] }
SchemaReplies ==
  SchemaViolations \cup { TailReply(<<90>>, <<"warm">>, Absent, Absent),
                          [NoReply EXCEPT !.kind = "badjson"] }

NextSchema ==
  \/ \E r \in DOMAIN req, text \in InboundTexts : QualifyBegin(r, text, MaxMsgs)
  \/ \E r \in DOMAIN req, reply \in SchemaReplies : ModelReplies(r, reply)

SpecSchema == InitTurn /\ [][NextSchema]_vars

(* ---- what a request stores ----------------------------------------------- *)

PersistTexts == {<<"I'm pre-approved">>, <<"Call me", " ", "today">>}

NextPersist ==
  \/ \E r \in DOMAIN req, text \in PersistTexts : QualifyBegin(r, text, MaxMsgs)
  \/ \E r \in DOMAIN req : ModelFails(r)
  \/ \E r \in DOMAIN req, reply \in TurnReplies : ModelReplies(r, reply)
  \/ GetConversation

SpecPersist == InitTurn /\ [][NextPersist]_vars

(* ---- lead operations by id, made by any agent ---------------------------- *)

\* the id of the agent of this model, and of the agent that every lead of
\* the model belongs to (routers/leads.py:157, agent_id = agent.id)
AGENT_ID == "agent-1"
LeadOwner == AGENT_ID
\* the agents that call: the owner, and another tenant with any
\* subscription status
Callers ==
  {[id |-> AGENT_ID, subscription_status |-> agent.subscription_status]}
  \cup [id : {"agent-2"}, subscription_status : SubscriptionStatus]

\* mutant: the lookup does not filter on the agent
GetLeadOr404_AnyAgent(caller_id) == lead.exists
\* routers/leads.py lines 331-338: TRUE when the lead is found
GetLeadOr404(caller_id) == lead.exists /\ LeadOwner = caller_id

Served(c, op, code) ==
  [Idle EXCEPT !.pc = "served", !.caller = c.id,
               !.subscription = c.subscription_status, !.op = op, !.http = code]

\* lines 170-180: GET /leads/{id}
GetLeadAs(r, c) ==
  /\ SlotFree(r)
  /\ req' = [req EXCEPT ![r] =
               Served(c, "get", IF GetLeadOr404(c.id) THEN 200 ELSE 404)]
  /\ UNCHANGED <<agent, lead, messages, scoring>>
  /\ UNCHANGED tables

\* lines 183-196: PATCH /leads/{id}
UpdateLeadAs(r, c, status) ==
  /\ SlotFree(r)
  /\ IF GetLeadOr404(c.id)
     THEN /\ lead' = [lead EXCEPT !.status = status]
          /\ req' = [req EXCEPT ![r] = Served(c, "update", 200)]
     ELSE /\ lead' = lead
          /\ req' = [req EXCEPT ![r] = Served(c, "update", 404)]
  /\ UNCHANGED <<agent, messages, scoring>>
  /\ UNCHANGED tables

\* lines 199-206: DELETE /leads/{id}
DeleteLeadAs(r, c) ==
  /\ SlotFree(r)
  /\ IF GetLeadOr404(c.id)
     THEN /\ InFlight = {}
          /\ lead' = NoLead
          /\ messages' = <<>>
          /\ scoring' = FALSE
          /\ req' = [req EXCEPT ![r] = Served(c, "delete", 204)]
     ELSE /\ UNCHANGED <<lead, messages, scoring>>
          /\ req' = [req EXCEPT ![r] = Served(c, "delete", 404)]
  /\ UNCHANGED agent
  /\ UNCHANGED tables

\* lines 279-307: GET /leads/{id}/messages
GetConversationAs(r, c) ==
  /\ SlotFree(r)
  /\ IF GetLeadOr404(c.id)
     THEN /\ messages' = [i \in 1..Len(messages) |->
                    IF messages[i].tx = "c" /\ messages[i].role = "lead"
                    THEN [messages[i] EXCEPT !.is_read = TRUE] ELSE messages[i]]
          /\ req' = [req EXCEPT ![r] = Served(c, "messages", 200)]
     ELSE /\ messages' = messages
          /\ req' = [req EXCEPT ![r] = Served(c, "messages", 404)]
  /\ UNCHANGED <<agent, lead, scoring>>
  /\ UNCHANGED tables

\* lines 209-244: POST /leads/{id}/qualify up to the model call; the
\* subscription is tested before the handler runs.  The calling agent's own
\* row is the model's agent for the owner and a newly registered one else.
QualifyAs(r, c, text, cap) ==
  /\ SlotFree(r)
  /\ IF ~RequireActiveSubscription(c)
     THEN /\ req' = [req EXCEPT ![r] = Served(c, "qualify", 402)]
          /\ messages' = messages
     ELSE IF ~GetLeadOr404(c.id)
     THEN /\ req' = [req EXCEPT ![r] = Served(c, "qualify", 404)]
          /\ messages' = messages
     ELSE /\ Len(messages) + Cardinality(InFlight) + 2 <= cap
          /\ messages' = Append(messages,
                [id |-> MaxId(messages) + 1, role |-> "lead", content |-> text,
                 is_read |-> FALSE, score_at_time |-> Absent,
                 triggered_hot_lead_alert |-> FALSE, tx |-> r])
          /\ req' = [req EXCEPT ![r] =
                [Idle EXCEPT !.pc = "calling",
                             !.agent = IF c.id = AGENT_ID THEN agent ELSE NewAgent(FALSE),
                             !.lead = lead, !.after = lead, !.text = text,
                             !.lead_msg = MaxId(messages) + 1,
                             !.sent = Ids(ModelContext(ConversationHistory(messages))),
                             !.prompt =
                               ModelMessages(ConversationHistory(messages), text),
                             !.model_calls = 1,
                             !.caller = c.id,
                             !.subscription = c.subscription_status,
                             !.op = "qualify"]]
  /\ UNCHANGED <<agent, lead, scoring>>
  /\ UNCHANGED tables

InitTenant ==
  /\ InitTables
  /\ agent = NewAgent(TRUE)
  /\ lead \in [exists : {TRUE}, ai_score : {40}, status : {"new", "warm", "hot"},
                last_contacted_at : {TRUE}]
  /\ messages = Conversation(1, lead.ai_score)
  /\ scoring = FALSE
  /\ req = [r \in {"r1", "r2"} |-> Idle]

NextTenant ==
  \/ \E r \in DOMAIN req, c \in Callers : GetLeadAs(r, c)
  \/ \E r \in DOMAIN req, c \in Callers, status \in PatchStatuses :
        UpdateLeadAs(r, c, status)
  \/ \E r \in DOMAIN req, c \in Callers : DeleteLeadAs(r, c)
  \/ \E r \in DOMAIN req, c \in Callers : GetConversationAs(r, c)
  \/ \E r \in DOMAIN req, c \in Callers, text \in InboundTexts :
        QualifyAs(r, c, text, MaxMsgs)
  \/ \E r \in DOMAIN req : ModelFails(r)
  \/ \E r \in DOMAIN req, reply \in TurnReplies : ModelReplies(r, reply)
  \/ \E r \in DOMAIN req, smsFails \in BOOLEAN, emailFails \in BOOLEAN :
        SendAlert(r, smsFails, emailFails)

SpecTenant == InitTenant /\ [][NextTenant]_vars

(* ---- routers/billing.py: the payment processor's webhook ----------------- *)

\* event types: the five the handler names and one it does not
WebhookTypes ==
  {"customer.subscription.created", "customer.subscription.updated",
   "customer.subscription.deleted", "invoice.payment_succeeded",
   "invoice.payment_failed", "customer.subscription.trial_will_end",
   "charge.refunded"}
\* status strings of the processor: those of status_map and others
StripeStatuses ==
  {"active", "trialing", "past_due", "canceled", "unpaid", "incomplete", "paused"}
\* signed: the signature verifies; customer: the event's customer is the
\* agent's stripe_customer_id; current_period_end: the object carries one
WebhookEvents ==
  [type : WebhookTypes, status : StripeStatuses, signed : BOOLEAN,
   customer : BOOLEAN, current_period_end : BOOLEAN]

\* lines 287-294: status_map.get(stripe_status, SubscriptionStatus.active)
StatusMap(stripe_status) ==
  CASE stripe_status = "active" -> "active"
    [] stripe_status = "trialing" -> "trialing"
    [] stripe_status = "past_due" -> "past_due"
    [] stripe_status = "canceled" -> "canceled"
    [] stripe_status = "unpaid" -> "past_due"
    [] OTHER -> "active"

\* lines 276-309: the subscription_status the handler assigns, and whether
\* it raises: line 307 uses the name datetime, which the module never
\* imports, so an object with current_period_end ends in NameError
HandleSubscriptionUpdated(ev) ==
  IF ~ev.customer THEN [status |-> agent.subscription_status, raised |-> FALSE]
  ELSE [status |-> StatusMap(ev.status), raised |-> ev.current_period_end]

\* lines 229-268: the dispatch on the event type
WebhookOutcome(ev) ==
  CASE ev.type \in {"customer.subscription.created", "customer.subscription.updated"}
         -> HandleSubscriptionUpdated(ev)
    [] ev.type = "customer.subscription.deleted"
         -> [status |-> IF ev.customer THEN "canceled" ELSE agent.subscription_status,
             raised |-> FALSE]
    [] ev.type = "invoice.payment_succeeded"
         -> [status |-> IF ev.customer THEN "active" ELSE agent.subscription_status,
             raised |-> FALSE]
    [] ev.type = "invoice.payment_failed"
         -> [status |-> IF ev.customer THEN "past_due" ELSE agent.subscription_status,
             raised |-> FALSE]
    [] OTHER -> [status |-> agent.subscription_status, raised |-> FALSE]

\* lines 210-271 and get_db: POST /billing/webhook.  A bad signature is
\* answered 400; an exception in a handler rolls the session back.
StripeWebhook(r, ev) ==
  /\ Ready(r)
  /\ LET out == WebhookOutcome(ev)
         code == IF ~ev.signed THEN 400 ELSE IF out.raised THEN 500 ELSE 200
     IN  /\ agent' = IF code = 200
                      THEN [agent EXCEPT !.subscription_status = out.status]
                      ELSE agent
         /\ req' = [req EXCEPT ![r] =
                      [Idle EXCEPT !.pc = "served", !.op = "webhook",
                                   !.http = code, !.event = <<ev>>]]
  /\ UNCHANGED <<lead, messages, scoring>>
  /\ UNCHANGED tables

InitBilling ==
  /\ InitTables
  /\ agent = NewAgent(TRUE)
  /\ lead = NoLead
  /\ messages = <<>>
  /\ scoring = FALSE
  /\ req = [r \in {"r1"} |-> Idle]

NextBilling ==
  \/ \E r \in DOMAIN req, ev \in WebhookEvents : StripeWebhook(r, ev)
  \/ CreateLead

SpecBilling == InitBilling /\ [][NextBilling]_vars

(* ---- the messages handed to the model ------------------------------------ *)

\* the longest conversation a request of this specification finds
MaxPromptHistory == 24
PromptLengths == {0, 1, 19, 20, 21, MaxPromptHistory}
PromptRoles == <<"lead", "ai", "agent", "system">>
\* n stored rows of all four roles, each with its own content
MixedConversation(n) ==
  [i \in 1..n |->
     [id |-> i, role |-> PromptRoles[(i % 4) + 1], content |-> <<"msg", ToString(i)>>,
      is_read |-> TRUE,
      score_at_time |-> IF PromptRoles[(i % 4) + 1] = "ai" THEN <<40>> ELSE Absent,
      triggered_hot_lead_alert |-> FALSE, tx |-> "c"]]

InitPrompt ==
  /\ InitTables
  /\ agent = NewAgent(TRUE)
  /\ lead = [exists |-> TRUE, ai_score |-> 40, status |-> "warm",
             last_contacted_at |-> TRUE]
  /\ \E n \in PromptLengths : messages = MixedConversation(n)
  /\ scoring = FALSE
  /\ req = [r \in {"r1"} |-> Idle]

NextPrompt ==
  \/ \E r \in DOMAIN req, text \in PersistTexts :
        /\ Len(messages) \in PromptLengths
        /\ QualifyBegin(r, text, MaxPromptHistory + 2)
  \/ \E r \in DOMAIN req : ModelFails(r)
  \/ \E r \in DOMAIN req, reply \in TurnReplies : ModelReplies(r, reply)
  \/ \E r \in DOMAIN req, smsFails \in BOOLEAN, emailFails \in BOOLEAN :
        SendAlert(r, smsFails, emailFails)

SpecPrompt == InitPrompt /\ [][NextPrompt]_vars

(* ---- a request that fails at any step ------------------------------------ *)

\* a lead that was created and scored and has not been contacted, owned by
\* an agent with either threshold
InitAtomic ==
  /\ InitTables
  /\ agent \in {[NewAgent(TRUE) EXCEPT !.ai_hot_lead_score_threshold = t] :
                  t \in Thresholds}
  /\ lead \in [exists : {TRUE}, ai_score : PriorScores,
                status : {"new", "warm", "hot"}, last_contacted_at : {FALSE}]
  /\ messages = <<>>
  /\ scoring = FALSE
  /\ req = [r \in {"r1"} |-> Idle]

NextAtomic ==
  \/ \E r \in DOMAIN req, text \in PersistTexts : QualifyBegin(r, text, MaxMsgs)
  \/ \E r \in DOMAIN req : ModelFails(r)
  \/ \E r \in DOMAIN req, reply \in TurnReplies \cup SchemaViolations :
        ModelReplies(r, reply)
  \/ \E r \in DOMAIN req, smsFails \in BOOLEAN, emailFails \in BOOLEAN :
        SendAlert(r, smsFails, emailFails)
  \/ GetConversation

SpecAtomic == InitAtomic /\ [][NextAtomic]_vars

(* ---- two qualification requests for one lead at a time ------------------- *)

InitOverlap ==
  /\ InitTables
  /\ agent = NewAgent(TRUE)
  /\ lead \in [exists : {TRUE}, ai_score : {DEFAULT_SCORE, 40},
                status : {"new", "warm"}, last_contacted_at : {FALSE}]
  /\ messages = <<>>
  /\ scoring = FALSE
  /\ req = [r \in {"r1", "r2"} |-> Idle]

\* the replies on which both turns complete
OverlapReplies == {reply \in TurnReplies : reply.status # <<"qualified">>}

NextOverlap ==
  \/ \E r \in DOMAIN req, text \in InboundTexts : QualifyBegin(r, text, MaxMsgs)
  \/ \E r \in DOMAIN req, reply \in OverlapReplies : ModelReplies(r, reply)

SpecOverlap == InitOverlap /\ [][NextOverlap]_vars

(* ---- routers/ads.py: the budget recommendation and its application ------- *)

\* the budgets and the logs this specification lets grow
MaxBudget == 800
MaxLogs == 1
\* the recommendations optimize_ad_budget returns: a source with and
\* without an account, a destination equal to the source, another one, and
\* one without an account; amounts absent, zero, within and above the
\* source's budget, and negative
Shifts ==
  {<<"meta", "google">>, <<"meta", "meta">>, <<"tiktok", "google">>,
   <<"meta", "tiktok">>}
Amounts == {Absent, <<0>>, <<100>>, <<500>>, <<-100>>}
Recommendations ==
  {[from_platform |-> s[1], to_platform |-> s[2], amount_to_shift |-> a] :
     s \in Shifts, a \in Amounts}
\* the agents that call: the owner of the accounts, and another tenant
\* with and without an active subscription
AdCallers == {c \in Callers : c.subscription_status \in {"trialing", "canceled"}}

\* the rows of one agent's account on a platform (uq_agent_platform: at
\* most one)
AccountsOf(accounts, agent_id, platform) ==
  {a \in accounts : a.agent_id = agent_id /\ a.platform = platform}
WithBudget(accounts, acct, budget) ==
  (accounts \ {acct}) \cup {[acct EXCEPT !.monthly_budget = budget]}
BudgetOf(accounts, agent_id, platform) ==
  (CHOOSE a \in AccountsOf(accounts, agent_id, platform) : TRUE).monthly_budget

\* Python truth of log.amount_shifted: neither None nor zero
AmountTruthy(amount) == amount # Absent /\ amount[1] # 0

\* mutant: the source's budget is not floored
SourceBudget_NoFloor(budget, amount) == budget - amount
\* line 181: max(0, from_acct.monthly_budget - log.amount_shifted)
SourceBudget(budget, amount) == Max(0, budget - amount)
\* mutant: the destination is not credited
DestinationBudget_NotCredited(budget, amount) == budget
\* line 183: to_acct.monthly_budget + log.amount_shifted
DestinationBudget(budget, amount) == budget + amount

\* lines 170-181: the accounts after the source's assignment
ShiftFrom(accounts, agent_id, log) ==
  LET from_acct == AccountsOf(accounts, agent_id, log.from_platform)
  IN  IF from_acct # {} /\ AmountTruthy(log.amount_shifted)
      THEN LET a == CHOOSE x \in from_acct : TRUE
           IN  WithBudget(accounts, a,
                          SourceBudget(a.monthly_budget, log.amount_shifted[1]))
      ELSE accounts
\* lines 173-183: the accounts after the destination's assignment; the
\* destination is read after the source was assigned, and is the same row
\* when both platforms are the same
ShiftTo(accounts, agent_id, log) ==
  LET to_acct == AccountsOf(accounts, agent_id, log.to_platform)
  IN  IF to_acct # {} /\ AmountTruthy(log.amount_shifted)
      THEN LET a == CHOOSE x \in to_acct : TRUE
           IN  WithBudget(accounts, a,
                          DestinationBudget(a.monthly_budget, log.amount_shifted[1]))
      ELSE accounts
\* lines 169-183
AppliedAccounts(accounts, agent_id, log) ==
  ShiftTo(ShiftFrom(accounts, agent_id, log), agent_id, log)

WithinBudget(accounts) ==
  \A a \in accounts : a.monthly_budget \in (0 - MaxBudget)..MaxBudget

\* lines 109-149 and optimize_ad_budget (services/ai_service.py:308-327):
\* POST /ads/optimize stores the recommendation as a log
RunAiOptimization(r, c, ok, rec) ==
  /\ Ready(r)
  /\ Len(logs) < MaxLogs
  /\ LET code == IF ~RequireActiveSubscription(c) THEN 402
                 ELSE IF {a \in ad_accounts : a.agent_id = c.id} = {} THEN 400
                 ELSE IF ~ok THEN 500 ELSE 200
     IN  /\ logs' = IF code = 200
                     THEN Append(logs, [agent_id |-> c.id,
                                        from_platform |-> rec.from_platform,
                                        to_platform |-> rec.to_platform,
                                        amount_shifted |-> rec.amount_to_shift,
                                        was_applied |-> FALSE])
                     ELSE logs
         /\ req' = [req EXCEPT ![r] = Served(c, "run_ai_optimization", code)]
  /\ UNCHANGED <<agent, lead, messages, scoring, ad_accounts, leads, enrollments>>

\* lines 152-188: POST /ads/optimize/{log_id}/apply
ApplyOptimization(r, c, log_id) ==
  /\ Ready(r)
  /\ LET found == log_id \in DOMAIN logs /\ logs[log_id].agent_id = c.id
         code == IF ~RequireActiveSubscription(c) THEN 402
                 ELSE IF ~found THEN 404 ELSE 200
     IN  /\ code = 200 => WithinBudget(AppliedAccounts(ad_accounts, c.id, logs[log_id]))
         /\ ad_accounts' = IF code = 200
                            THEN AppliedAccounts(ad_accounts, c.id, logs[log_id])
                            ELSE ad_accounts
         /\ logs' = IF code = 200
                     THEN [logs EXCEPT ![log_id].was_applied = TRUE]
                     ELSE logs
         /\ req' = [req EXCEPT ![r] =
                      [Served(c, "apply_optimization", code) EXCEPT
                         !.event = <<log_id>>]]
  /\ UNCHANGED <<agent, lead, messages, scoring, leads, enrollments>>

\* the agent has a meta account and a google account with budgets set by
\* update_platform_budget (lines 236-251); another tenant has a meta account
InitAds ==
  /\ agent = NewAgent(TRUE)
  /\ lead = NoLead
  /\ messages = <<>>
  /\ scoring = FALSE
  /\ req = [r \in {"r1"} |-> Idle]
  /\ ad_accounts =
       {[agent_id |-> AGENT_ID, platform |-> "meta", monthly_budget |-> 300],
        [agent_id |-> AGENT_ID, platform |-> "google", monthly_budget |-> 100],
        [agent_id |-> "agent-2", platform |-> "meta", monthly_budget |-> 300]}
  /\ logs = <<>>
  /\ leads = <<>>
  /\ enrollments = {}

NextAds ==
  \/ \E r \in DOMAIN req, c \in AdCallers, ok \in BOOLEAN, rec \in Recommendations :
        RunAiOptimization(r, c, ok, rec)
  \/ \E r \in DOMAIN req, c \in AdCallers, log_id \in 1..MaxLogs :
        ApplyOptimization(r, c, log_id)

SpecAds == InitAds /\ [][NextAds]_vars

(* ---- routers/ads.py: the lead-capture webhook ---------------------------- *)

\* the leads this specification lets the table hold
MaxLeads == 4
AdPlatforms == {"meta", "google"}
\* a change of a webhook entry: its field and, in its value, the ad's id
Leadgen(ad_id) == [field |-> "leadgen", value |-> [ad_id |-> ad_id]]
OtherChange == [field |-> "feed", value |-> [ad_id |-> "ad-0"]]
\* deliveries: signed or not; no change, one leadgen change, one beside a
\* change of another field, two leadgen changes
MetaPayloads ==
  [signed : BOOLEAN,
   changes : {<<>>, <<Leadgen("ad-1")>>, <<Leadgen("ad-1"), OtherChange>>,
              <<Leadgen("ad-1"), Leadgen("ad-2")>>}]

\* lines 202-233: POST /ads/accounts/connect creates the agent's account on
\* the platform unless it exists; a meta token that does not verify is
\* answered 400 and the session is rolled back
ConnectAdAccount(r, c, platform, verified) ==
  /\ Ready(r)
  /\ LET code == IF ~RequireActiveSubscription(c) THEN 402
                 ELSE IF platform = "meta" /\ ~verified THEN 400 ELSE 200
     IN  /\ ad_accounts' =
              IF code = 200 /\ AccountsOf(ad_accounts, c.id, platform) = {}
              THEN ad_accounts \cup {[agent_id |-> c.id, platform |-> platform,
                                      monthly_budget |-> 0]}
              ELSE ad_accounts
         /\ req' = [req EXCEPT ![r] = Served(c, "connect_ad_account", code)]
  /\ UNCHANGED <<agent, lead, messages, scoring, logs, leads, enrollments>>

\* lines 404-408: the changes a delivery hands to _process_meta_lead
LeadgenChanges(payload) == SelectSeq(payload.changes, LAMBDA ch : ch.field = "leadgen")
\* lines 564-568: select(AdAccount).where(platform == "meta")
MetaAccounts(accounts) == {a \in accounts : a.platform = "meta"}
\* mutant: a lead of the same ad is not created again
NewMetaLead_OncePerAd(rows, account, lead_data) ==
  IF \E i \in 1..Len(rows) : rows[i].ad_id = lead_data.ad_id THEN rows
  ELSE Append(rows, [id |-> Len(rows) + 1, agent_id |-> account.agent_id,
                     source |-> "meta", ad_id |-> lead_data.ad_id, status |-> "new"])
\* lines 572-583: the Lead of one leadgen change, committed
NewMetaLead(rows, account, lead_data) ==
  Append(rows, [id |-> Len(rows) + 1, agent_id |-> account.agent_id,
                source |-> "meta", ad_id |-> lead_data.ad_id, status |-> "new"])
\* lines 553-587, task after task: the tables the background tasks of one
\* delivery may leave.  Without a meta account a task returns; with several
\* the query, which has no order, may return any of them first.
RECURSIVE ProcessMetaLeads(_, _, _)
ProcessMetaLeads(rows, accounts, changes) ==
  IF changes = <<>> \/ MetaAccounts(accounts) = {} THEN {rows}
  ELSE UNION {ProcessMetaLeads(NewMetaLead(rows, a, Head(changes).value),
                               accounts, Tail(changes)) :
                a \in MetaAccounts(accounts)}

\* lines 381-410 with the background tasks the delivery adds: POST
\* /ads/meta/webhook/leads
MetaLeadWebhook(r, payload) ==
  /\ Ready(r)
  /\ Len(leads) + Len(payload.changes) <= MaxLeads
  /\ LET code == IF ~payload.signed THEN 403 ELSE 200
     IN  /\ leads' \in (IF code = 200
                        THEN ProcessMetaLeads(leads, ad_accounts, LeadgenChanges(payload))
                        ELSE {leads})
         /\ req' = [req EXCEPT ![r] =
                      [Idle EXCEPT !.pc = "served", !.op = "meta_lead_webhook",
                                   !.http = code, !.event = <<payload>>]]
  /\ UNCHANGED <<agent, lead, messages, scoring, ad_accounts, logs, enrollments>>

NextCapture ==
  \/ \E r \in DOMAIN req, c \in AdCallers, platform \in AdPlatforms, verified \in BOOLEAN :
        ConnectAdAccount(r, c, platform, verified)
  \/ \E r \in DOMAIN req, payload \in MetaPayloads : MetaLeadWebhook(r, payload)

SpecCapture == InitBilling /\ [][NextCapture]_vars

(* ---- routers/campaigns.py: enrollment ------------------------------------ *)

\* the campaigns of the model and the agent each belongs to (line 68,
\* agent_id = agent.id)
Campaigns == {"campaign-1", "campaign-2"}
CampaignOwner(campaign_id) == IF campaign_id = "campaign-1" THEN AGENT_ID ELSE "agent-2"
\* the lead ids a request may name: the agent's lead, another agent's, and
\* one that does not exist
EnrollRequests == {<<1>>, <<2>>, <<1, 2>>, <<1, 1>>, <<3>>}
LeadIds(rows) == {rows[i].id : i \in 1..Len(rows)}

\* lines 107-122: one enrollment per lead id of the request that has none
\* in the campaign yet
Enrolled(rows, campaign_id, lead_ids) ==
  rows \cup {[lead_id |-> lead_ids[i], campaign_id |-> campaign_id] :
               i \in 1..Len(lead_ids)}

\* lines 93-124 and get_db: POST /campaigns/{id}/enroll.  An enrollment of
\* a lead id that is in no row of leads violates the foreign key at commit:
\* the session is rolled back.
EnrollLeads(r, c, campaign_id, lead_ids) ==
  /\ Ready(r)
  /\ LET after == Enrolled(enrollments, campaign_id, lead_ids)
         code == IF ~RequireActiveSubscription(c) THEN 402
                 ELSE IF CampaignOwner(campaign_id) # c.id THEN 404
                 ELSE IF \E e \in after : e.lead_id \notin LeadIds(leads) THEN 500
                 ELSE 200
     IN  /\ enrollments' = IF code = 200 THEN after ELSE enrollments
         /\ req' = [req EXCEPT ![r] =
                      [Served(c, "enroll_leads", code) EXCEPT
                         !.event = <<[campaign_id |-> campaign_id,
                                      lead_ids |-> lead_ids]>>]]
  /\ UNCHANGED <<agent, lead, messages, scoring, ad_accounts, logs, leads>>

\* each of the two agents has created one lead (routers/leads.py:157)
InitEnroll ==
  /\ agent = NewAgent(TRUE)
  /\ lead = NoLead
  /\ messages = <<>>
  /\ scoring = FALSE
  /\ req = [r \in {"r1"} |-> Idle]
  /\ ad_accounts = {}
  /\ logs = <<>>
  /\ leads = <<[id |-> 1, agent_id |-> AGENT_ID, source |-> "manual",
                ad_id |-> "", status |-> "new"],
               [id |-> 2, agent_id |-> "agent-2", source |-> "manual",
                ad_id |-> "", status |-> "new"]>>
  /\ enrollments = {}

NextEnroll ==
  \E r \in DOMAIN req, c \in Callers, campaign_id \in Campaigns,
     lead_ids \in EnrollRequests :
       EnrollLeads(r, c, campaign_id, lead_ids)

SpecEnroll == InitEnroll /\ [][NextEnroll]_vars

(* ---- services/ai_service.py: score_lead_from_profile on any lead --------- *)

\* budget_min and budget_max of a lead: NULL, zero, an amount (LeadCreate
\* takes each of them alone, routers/leads.py:30-31)
ProfileBudgets == {Absent, <<0>>, <<250000>>}
ProfileTexts == ProfileReplies \cup {<<>>, <<"7">>, <<"1", "0", "0">>}
ProfileInputs ==
  [budget_min : ProfileBudgets, budget_max : ProfileBudgets, ok : BOOLEAN,
   text : ProfileTexts]

\* lines 335-339: the prompt is built before the try block; when budget_max
\* is truthy the f-string formats budget_min with ',', which raises
\* TypeError for None
ProfilePromptRaises(budget_min, budget_max) ==
  budget_max # Absent /\ budget_max[1] # 0 /\ budget_min = Absent
\* lines 330-364: what a call ends in
ScoreLeadFromProfileCall(in) ==
  IF ProfilePromptRaises(in.budget_min, in.budget_max)
  THEN [raised |-> TRUE, score |-> Absent]
  ELSE [raised |-> FALSE, score |-> <<ScoreLeadFromProfile(in.ok, in.text)>>]

\* one call of score_lead_from_profile on the slot's input
ScoreProfile(r) ==
  /\ req[r].pc = "idle"
  /\ req' = [req EXCEPT ![r] =
               [Idle EXCEPT !.pc = "served", !.op = "score_lead_from_profile",
                            !.event = <<req[r].event[1],
                                        ScoreLeadFromProfileCall(req[r].event[1])>>]]
  /\ UNCHANGED <<agent, lead, messages, scoring, ad_accounts, logs, leads, enrollments>>

InitProfile ==
  /\ InitTables
  /\ agent = NewAgent(TRUE)
  /\ lead = NoLead
  /\ messages = <<>>
  /\ scoring = FALSE
  /\ \E in \in ProfileInputs : req = [r \in {"r1"} |-> [Idle EXCEPT !.event = <<in>>]]

NextProfile == \E r \in DOMAIN req : ScoreProfile(r)

SpecProfile == InitProfile /\ [][NextProfile]_vars

(* ---- the stored messages under every operation on the lead -------------- *)

NextMessages ==
  \/ \E r \in DOMAIN req, text \in InboundTexts : QualifyBegin(r, text, MaxMsgs)
  \/ \E r \in DOMAIN req, reply \in OverlapReplies : ModelReplies(r, reply)
  \/ GetConversation
  \/ \E status \in PatchStatuses : UpdateLead(status)
  \/ DeleteLead

SpecMessages == InitOverlap /\ [][NextMessages]_vars

(* ---- properties ---------------------------------------------------------- *)

\* requests whose turn completed: qualify_lead returned and the session
\* committed
Completed == {r \in DOMAIN req : req[r].pc \in {"responded", "alerted"}}
Threshold(r) == req[r].agent.ai_hot_lead_score_threshold
NoTailAdopted(r) == req[r].reply.kind \in {"none", "badjson"}

\* C1: in every completed turn whose score in effect (the tail's, or the
\* retained one) is >= the agent's threshold and whose lead was not hot
\* before the turn, the lead is hot after the turn and alert_agent is true,
\* whatever status and alert_agent the tail reports.
C1_ThresholdForcesHotAndAlert ==
  \A r \in Completed :
    (req[r].result.score >= Threshold(r) /\ req[r].lead.status # "hot")
      => (req[r].after.status = "hot" /\ req[r].result.alert_agent)

\* C2 as stated: when the reply has no tail or the tail is not valid JSON,
\* the turn completes and leaves the lead's score and status as they were,
\* with empty key_findings, for every prior score, status and threshold.
C2_NoTailKeepsScoreAndStatus ==
  \A r \in DOMAIN req :
    (req[r].pc \in {"raised", "responded", "alerted"} /\ NoTailAdopted(r))
      => /\ req[r].pc # "raised"
         /\ req[r].after.ai_score = req[r].lead.ai_score
         /\ lead.ai_score = req[r].lead.ai_score
         /\ req[r].after.status = req[r].lead.status
         /\ lead.status = req[r].lead.status
         /\ req[r].result.key_findings = <<>>

\* C2 amended: when the reply has no tail or the tail is not valid JSON,
\* the turn completes, the score is retained and key_findings is empty; the
\* status is retained unless the retained score is >= the threshold and the
\* lead was not hot, in which case the lead becomes hot and alert_agent is
\* true.
C2_NoTailKeepsScoreAndAppliesThreshold ==
  \A r \in DOMAIN req :
    (req[r].pc \in {"raised", "responded", "alerted"} /\ NoTailAdopted(r))
      => LET forced == req[r].lead.ai_score >= Threshold(r)
                         /\ req[r].lead.status # "hot"
         IN  /\ req[r].pc # "raised"
             /\ req[r].after.ai_score = req[r].lead.ai_score
             /\ lead.ai_score = req[r].lead.ai_score
             /\ req[r].result.score = req[r].lead.ai_score
             /\ req[r].result.key_findings = <<>>
             /\ req[r].after.status = IF forced THEN "hot" ELSE req[r].lead.status
             /\ lead.status = req[r].after.status
             /\ req[r].result.alert_agent = forced

\* a turn on an unparseable tail whose retained score forced the lead hot
C2_Witness ==
  \E r \in Completed :
    /\ req[r].reply.kind = "badjson"
    /\ req[r].lead.status = "warm"
    /\ req[r].lead.ai_score = 90
    /\ lead.status = "hot"
    /\ lead.ai_score = 90

InRange(score) == score \in SCORE_MIN..SCORE_MAX

\* C3: a lead's ai_score, the score of every turn result and the
\* score_at_time of every message are integers in 0..100.
C3_ScoresWithinRange ==
  /\ lead.exists => InRange(lead.ai_score)
  /\ \A r \in Completed : InRange(req[r].result.score)
  /\ \A i \in 1..Len(messages) :
       messages[i].score_at_time # Absent => InRange(messages[i].score_at_time[1])

AiMessages == SelectSeq(Committed(messages), LAMBDA m : m.role = "ai")

\* C4: once a qualification turn has completed for a lead, the lead's
\* ai_score equals the score_at_time of its most recent AI message.
C4_ScoreIsLastAiSnapshot ==
  (lead.exists /\ AiMessages # <<>>)
    => <<lead.ai_score>> = AiMessages[Len(AiMessages)].score_at_time

\* C5: the turn result reports the lead's final status and final score.
C5_ResultReportsFinalState ==
  \A r \in Completed :
    /\ req[r].result.status = req[r].after.status
    /\ req[r].result.score = req[r].after.ai_score

\* C6: the history given to the model is the min(n, 20) most recently
\* created stored messages of the lead, in creation order.
C6_HistoryIsMostRecentMessages ==
  \A r \in DOMAIN req :
    req[r].pc = "calling"
      => req[r].sent = Ids(LastN(SelectSeq(messages, LAMBDA m : m.id < req[r].lead_msg),
                                 CONTEXT_WINDOW))

InboundPersisted(r) ==
  \E i \in 1..Len(messages) :
    /\ messages[i].id = req[r].lead_msg
    /\ messages[i].role = "lead"
    /\ messages[i].tx = "c"
\* no row was stored for the request but, possibly, its inbound message
NoAiMessageRecorded(r) ==
  \A i \in 1..Len(messages) : messages[i].id <= req[r].lead_msg
LeadAsLoaded(r) ==
  /\ lead.ai_score = req[r].lead.ai_score
  /\ lead.status = req[r].lead.status

\* C7: when the model call fails, the model was invoked once, the
\* inbound message of the turn remains persisted, no AI message is recorded
\* and the lead's score and status are unchanged.
C7_FailedCallKeepsInboundMessage ==
  \A r \in DOMAIN req :
    req[r].pc = "call_failed"
      => /\ req[r].model_calls = 1
         /\ InboundPersisted(r)
         /\ NoAiMessageRecorded(r)
         /\ LeadAsLoaded(r)

Expected(enabled, destination) == IF enabled /\ destination THEN 1 ELSE 0

\* C8: the email send is attempted whenever the email channel is enabled
\* and the agent has an email address, whether the SMS send succeeded,
\* failed or was skipped, and no channel failure reaches the caller.
C8_SmsFailureDoesNotBlockEmail ==
  \A r \in DOMAIN req :
    req[r].pc = "alerted"
      => /\ (req[r].agent.notify_hot_lead_email /\ req[r].agent.email)
              => req[r].dispatch.email = 1
         /\ ~req[r].dispatch.raised

\* the SMS provider failed and the email was attempted all the same
C8_Witness ==
  \E r \in DOMAIN req :
    /\ req[r].pc = "alerted"
    /\ req[r].dispatch.sms = 1
    /\ ~req[r].dispatch.sms_sent
    /\ req[r].dispatch.email = 1

\* C9: in one call of send_hot_lead_alert the SMS is attempted once when
\* notify_hot_lead_sms and agent.phone are set and not at all otherwise, and
\* the email once when notify_hot_lead_email and agent.email are set and not
\* at all otherwise; a skipped channel raises nothing.
C9_ChannelAttemptedIffEnabledAndConfigured ==
  \A r \in DOMAIN req :
    req[r].pc = "alerted"
      => /\ req[r].dispatch.sms =
              Expected(req[r].agent.notify_hot_lead_sms, req[r].agent.phone)
         /\ req[r].dispatch.email =
              Expected(req[r].agent.notify_hot_lead_email, req[r].agent.email)
         /\ ~req[r].dispatch.raised

\* an agent without a phone: the SMS is skipped, the email attempted
C9_Witness ==
  \E r \in DOMAIN req :
    /\ req[r].pc = "alerted"
    /\ req[r].agent.notify_hot_lead_sms
    /\ ~req[r].agent.phone
    /\ req[r].agent.notify_hot_lead_email
    /\ req[r].dispatch.sms = 0
    /\ req[r].dispatch.email = 1

BothChannels(a) ==
  /\ a.ai_hot_lead_score_threshold = DEFAULT_THRESHOLD
  /\ a.notify_hot_lead_sms /\ a.phone
  /\ a.notify_hot_lead_email /\ a.email
Scenario1(reply) ==
  /\ reply.kind = "object"
  /\ reply.score = <<90>> /\ reply.status = <<"hot">>
  /\ reply.alert_agent = <<TRUE>>
\* the tail of scenario 2 carries a score and a status and no alert_agent
\* set to true
Scenario2(reply) ==
  /\ reply.kind = "object"
  /\ reply.score = <<40>> /\ reply.status = <<"warm">>
  /\ reply.alert_agent \in {Absent, <<FALSE>>}

\* C10: the alert task is handed off once when the turn's alert_agent is
\* true and not at all when it is false.  With threshold 75 and both
\* channels enabled and configured, a tail with score 90, status hot,
\* alert_agent true gives status hot, alert_agent true and one SMS and one
\* email attempt; a tail with score 40, status warm gives status warm,
\* alert_agent false and no notification attempt.
C10_AlertHandedOffOncePerAlertingTurn ==
  \A r \in DOMAIN req :
    /\ r \in Completed
         => req[r].handoffs = (IF req[r].result.alert_agent THEN 1 ELSE 0)
    /\ req[r].pc = "alerted" => req[r].handoffs = 1
    /\ req[r].pc # "alerted" => req[r].dispatch.sms = 0 /\ req[r].dispatch.email = 0
    /\ (r \in Completed /\ BothChannels(req[r].agent) /\ Scenario1(req[r].reply))
         => /\ lead.status = "hot"
            /\ req[r].result.alert_agent
            /\ req[r].pc = "alerted"
                 => req[r].dispatch.sms = 1 /\ req[r].dispatch.email = 1
    /\ (r \in Completed /\ BothChannels(req[r].agent) /\ Scenario2(req[r].reply))
         => /\ lead.status = "warm"
            /\ ~req[r].result.alert_agent
            /\ req[r].pc = "responded"

\* scenario 1 after its alert task has run
C10_Witness ==
  \E r \in DOMAIN req :
    /\ req[r].pc = "alerted"
    /\ BothChannels(req[r].agent)
    /\ Scenario1(req[r].reply)
    /\ req[r].lead.status = "new"
    /\ lead.status = "hot"
    /\ req[r].dispatch.sms = 1 /\ req[r].dispatch.email = 1

\* C11: qualify_lead called again with the same agent, lead, message and
\* history, the model returning the same reply, gives the turn result of
\* the first call.
C11_ReplayYieldsSameResult ==
  \A r \in DOMAIN req : req[r].replays > 0 => req[r].replay = req[r].result

IsSpace(t) == \A i \in 1..Len(t) : t[i] = " "
\* d is t without the whitespace around it
StrippedOf(d, t) ==
  /\ d = <<>> \/ (d[1] # " " /\ d[Len(d)] # " ")
  /\ \E a, b \in 0..Len(t) :
        /\ a + Len(d) + b = Len(t)
        /\ IsSpace(SubSeq(t, 1, a))
        /\ d = SubSeq(t, a + 1, a + Len(d))
        /\ IsSpace(SubSeq(t, a + Len(d) + 1, Len(t)))
\* the row stored right after the request's inbound message
AiMessageOf(r) ==
  CHOOSE m \in {messages[i] : i \in 1..Len(messages)} : m.id = req[r].lead_msg + 1

\* C12: the response shown for a turn is the whole raw reply when the reply
\* has no marker, and otherwise the text before the first marker without
\* the whitespace around it; the marker and the tail are neither in the
\* response nor in the content of the stored AI message.
C12_DisplayTextExcludesTail ==
  \A r \in Completed :
    LET raw == FullResponse(req[r].reply)
        shown == req[r].result.ai_response
    IN  /\ (\A i \in 1..Len(raw) : raw[i] # SCORE_MARKER) => shown = raw
        /\ \A i \in 1..Len(raw) :
             (raw[i] = SCORE_MARKER /\ \A j \in 1..(i - 1) : raw[j] # SCORE_MARKER)
               => StrippedOf(shown, SubSeq(raw, 1, i - 1))
        /\ \A i \in 1..Len(shown) : shown[i] \notin {SCORE_MARKER, "{json}", "{", "]"}
        /\ AiMessageOf(r).role = "ai"
        /\ AiMessageOf(r).content = shown

\* a reply whose text before the marker has whitespace on both sides
C12_Witness ==
  \E r \in Completed :
    /\ req[r].reply.kind = "object"
    /\ req[r].reply.text = <<" ", "Sure", " ", "thing">>
    /\ req[r].result.ai_response = <<"Sure", " ", "thing">>
    /\ AiMessageOf(r).content = <<"Sure", " ", "thing">>

\* C13: a tail that is valid JSON but has a status outside the enumeration,
\* a score that is not a number, or is no object, is treated as malformed:
\* the turn completes without an error and the lead keeps its score and
\* status.
C13_SchemaViolationIsSwallowed ==
  \A r \in DOMAIN req :
    (req[r].pc \in {"raised", "responded", "alerted"}
       /\ req[r].reply \in SchemaViolations)
      => /\ req[r].pc # "raised"
         /\ lead.ai_score = req[r].lead.ai_score
         /\ lead.status = req[r].lead.status

ServesStranger(r) ==
  /\ req'[r] # req[r]
  /\ req'[r].op # ""
  /\ req'[r].caller # LeadOwner
NothingChanged(r) ==
  /\ lead' = lead
  /\ messages' = messages
  /\ scoring' = scoring
  /\ req'[r].model_calls = 0
  /\ req'[r].handoffs = 0
  /\ req'[r].dispatch = NoDispatch

\* C15 as stated: get, update, delete, qualify and read-messages on a lead,
\* made by an agent that does not own it, answer 404 and change nothing.
C15_StrangerGetsNotFound ==
  [][\A r \in DOMAIN req :
       ServesStranger(r) => (req'[r].http = 404 /\ NothingChanged(r))]_vars

\* C15 amended: they change nothing and answer 404, except that qualify
\* answers 402 when the calling agent's subscription is neither active nor
\* trialing.
C15_StrangerIsRejectedWithoutEffect ==
  [][\A r \in DOMAIN req :
       ServesStranger(r)
         => /\ NothingChanged(r)
            /\ req'[r].http =
                 IF req'[r].op = "qualify"
                    /\ req'[r].subscription \notin {"active", "trialing"}
                 THEN 402 ELSE 404]_vars

\* another tenant's DELETE was answered 404 and the lead kept its messages
C15_Witness ==
  \E r \in DOMAIN req :
    /\ req[r].caller = "agent-2"
    /\ req[r].op = "delete"
    /\ req[r].http = 404
    /\ lead.exists
    /\ Len(messages) = 2

\* C16: the agent's subscription_status is always one of active, past_due,
\* canceled, trialing; after a subscription created or updated event for
\* the agent it is the event's status when that is one of these four,
\* past_due for unpaid, and active for any other status.
C16_WebhookMapsStatusIntoDomain ==
  /\ agent.subscription_status \in {"active", "past_due", "canceled", "trialing"}
  /\ \A r \in DOMAIN req :
       (/\ req[r].op = "webhook"
        /\ req[r].event[1].signed
        /\ req[r].event[1].customer
        /\ req[r].event[1].type \in {"customer.subscription.created",
                                     "customer.subscription.updated"})
         => agent.subscription_status =
              (CASE req[r].event[1].status \in
                      {"active", "trialing", "past_due", "canceled"}
                      -> req[r].event[1].status
                 [] req[r].event[1].status = "unpaid" -> "past_due"
                 [] OTHER -> "active")

\* C17: in a turn whose score is >= the threshold, alert_agent is forced
\* true when the lead passes from a status that is not hot to hot, and when
\* the lead was hot before the turn alert_agent is the flag the model
\* reported.
C17_ForcedAlertOnlyOnTransitionToHot ==
  \A r \in Completed :
    req[r].result.score >= Threshold(r)
      => /\ (req[r].lead.status # "hot" /\ req[r].after.status = "hot")
              => req[r].result.alert_agent
         /\ req[r].lead.status = "hot"
              => req[r].result.alert_agent = ReportedAlert(req[r].reply)

\* C18: in a completed turn whose score is below the threshold, alert_agent
\* is the tail's alert_agent (false when the key is missing or no tail was
\* parsed), the lead's status is the status the tail reports, and the
\* alert task is handed off exactly when that flag is true.
C18_BelowThresholdFollowsModelFlag ==
  \A r \in Completed :
    req[r].result.score < Threshold(r)
      => LET flagged == req[r].reply.kind = "object"
                          /\ req[r].reply.alert_agent = <<TRUE>>
         IN  /\ req[r].result.alert_agent = flagged
             /\ req[r].handoffs = (IF flagged THEN 1 ELSE 0)
             /\ req[r].pc = "alerted" => flagged
             /\ (/\ req[r].reply.kind = "object"
                 /\ req[r].reply.status # Absent
                 /\ req[r].reply.status[1] \in LeadStatus)
                  => /\ req[r].after.status = req[r].reply.status[1]
                     /\ lead.status = req[r].reply.status[1]
             /\ req[r].reply.kind \in {"none", "badjson"}
                  => req[r].after.status = req[r].lead.status

\* a tail below the threshold that raises the flag itself, and was alerted
C18_Witness ==
  \E r \in DOMAIN req :
    /\ req[r].pc = "alerted"
    /\ req[r].result.score = 40
    /\ Threshold(r) = DEFAULT_THRESHOLD
    /\ req[r].reply.alert_agent = <<TRUE>>
    /\ req[r].reply.status = <<"warm">>
    /\ req[r].lead.status = "hot"
    /\ lead.status = "warm"

StoredAfter(id, role) ==
  \E i \in 1..Len(messages') :
    messages'[i].id = id /\ messages'[i].role = role /\ messages'[i].tx = "c"

\* C20: the step that ends a qualification request either stores all of
\* the inbound message, the AI message, the lead's new score and status and
\* the last_contacted_at stamp, or stores none of them and leaves the
\* lead and the stored messages as they were.
C20_RequestCommitsAllOrNothing ==
  [][\A r \in DOMAIN req :
       (req[r].pc = "calling" /\ req'[r].pc # "calling")
         => \/ /\ StoredAfter(req[r].lead_msg, "lead")
               /\ StoredAfter(req[r].lead_msg + 1, "ai")
               /\ lead'.ai_score = req'[r].after.ai_score
               /\ lead'.status = req'[r].after.status
               /\ lead'.last_contacted_at
               /\ \A i \in 1..Len(messages') : messages'[i].tx = "c"
            \/ /\ ~StoredAfter(req[r].lead_msg, "lead")
               /\ ~StoredAfter(req[r].lead_msg + 1, "ai")
               /\ lead' = lead
               /\ messages' = Committed(messages)]_vars

\* a request that failed after the model replied, on a lead never
\* contacted: nothing of it is stored
C20_Witness ==
  \E r \in DOMAIN req :
    /\ req[r].pc = "raised"
    /\ req[r].lead_msg = 1
    /\ messages = <<>>
    /\ ~lead.last_contacted_at

\* a and b completed, each having read the lead before the other
\* committed, and b committed last
Overlapped(a, b) ==
  /\ a \in Completed /\ b \in Completed
  /\ a # b
  /\ req[a].lead_msg < req[b].ai_msg
  /\ req[b].lead_msg < req[a].ai_msg
  /\ req[a].ai_msg < req[b].ai_msg
BothTurnsStored(a, b) ==
  /\ Len(messages) = 4
  /\ \A i \in 1..4 : messages[i].tx = "c"
  /\ {messages[i].id : i \in 1..4} =
       {req[a].lead_msg, req[a].ai_msg, req[b].lead_msg, req[b].ai_msg}

\* C21 as stated: when two turns for a lead overlap, both turns' messages
\* are stored and the lead's score and status are the pair computed by
\* the turn that commits last.
C21_LastCommitterSetsScoreAndStatus ==
  \A a, b \in DOMAIN req :
    Overlapped(a, b)
      => /\ BothTurnsStored(a, b)
         /\ lead.ai_score = req[b].after.ai_score
         /\ lead.status = req[b].after.status

\* the value of a column after both commits: that of the last turn that
\* changed it, else the one both turns loaded
ColumnAfter(loaded, first, last) ==
  IF last # loaded THEN last ELSE IF first # loaded THEN first ELSE loaded

\* C21 amended: both turns' messages are stored, and each of score and
\* status holds the value of the last-committing turn when that turn
\* changed it, and otherwise the value the other turn wrote.
C21_LastChangeWinsPerColumn ==
  \A a, b \in DOMAIN req :
    Overlapped(a, b)
      => /\ BothTurnsStored(a, b)
         /\ req[a].lead = req[b].lead
         /\ lead.ai_score = ColumnAfter(req[b].lead.ai_score, req[a].after.ai_score,
                                        req[b].after.ai_score)
         /\ lead.status = ColumnAfter(req[b].lead.status, req[a].after.status,
                                      req[b].after.status)
         /\ lead.last_contacted_at

\* the turn that commits last changed neither score nor status, and the
\* lead keeps what the first one wrote
C21_Witness ==
  \E a, b \in DOMAIN req :
    /\ Overlapped(a, b)
    /\ req[b].after.ai_score = req[b].lead.ai_score
    /\ req[b].after.status = req[b].lead.status
    /\ lead.ai_score = 90 /\ req[b].after.ai_score = 40
    /\ lead.status = "hot" /\ req[b].after.status = "warm"

\* a step in which apply_optimization answers 200 for log id of caller c
Applied(c, id) ==
  \E r \in DOMAIN req : ApplyOptimization(r, c, id) /\ req'[r].http = 200
HasAccount(c, platform) == AccountsOf(ad_accounts, c.id, platform) # {}
\* the accounts of the step's agent other than the log's two are unchanged,
\* and so is every other agent's
OtherAccountsKept(c, log) ==
  \A a \in ad_accounts :
    (a.agent_id # c.id \/ a.platform \notin {log.from_platform, log.to_platform})
      => a \in ad_accounts'

\* no account whose budget was not negative has a negative budget after
\* the step
NoBudgetMadeNegative ==
  \A x \in ad_accounts' :
    x.monthly_budget < 0 =>
      \E y \in ad_accounts : /\ y.agent_id = x.agent_id /\ y.platform = x.platform
                              /\ y.monthly_budget < 0

\* C22 as stated: applying a log with amount a > 0 leaves the source at
\* max(0, old - a) and the destination at old + a, makes no budget
\* negative, changes no budget when the amount is 0 or absent, and always
\* marks the log applied.
C22_SourceFlooredDestinationCredited ==
  [][\A c \in AdCallers, id \in 1..MaxLogs :
       Applied(c, id) =>
         LET log == logs[id]
             a == log.amount_shifted
         IN  /\ logs'[id].was_applied
             /\ ~AmountTruthy(a) => ad_accounts' = ad_accounts
             /\ (a # Absent /\ a[1] > 0) =>
                   /\ HasAccount(c, log.from_platform) =>
                        BudgetOf(ad_accounts', c.id, log.from_platform)
                          = Max(0, BudgetOf(ad_accounts, c.id, log.from_platform) - a[1])
                   /\ HasAccount(c, log.to_platform) =>
                        BudgetOf(ad_accounts', c.id, log.to_platform)
                          = BudgetOf(ad_accounts, c.id, log.to_platform) + a[1]
                   /\ NoBudgetMadeNegative
  ]_vars

\* C22 amended: the above holds when source and destination are different
\* platforms (for any non-zero amount, the absence of negative budgets for
\* a > 0); when they are the same platform the one account ends at
\* max(0, old - a) + a; no other account changes.
C22_DistinctAccountsFlooredAndCredited ==
  [][\A c \in AdCallers, id \in 1..MaxLogs :
       Applied(c, id) =>
         LET log == logs[id]
             a == log.amount_shifted
         IN  /\ logs'[id].was_applied
             /\ ~AmountTruthy(a) => ad_accounts' = ad_accounts
             /\ OtherAccountsKept(c, log)
             /\ (AmountTruthy(a) /\ log.from_platform # log.to_platform) =>
                   /\ HasAccount(c, log.from_platform) =>
                        BudgetOf(ad_accounts', c.id, log.from_platform)
                          = Max(0, BudgetOf(ad_accounts, c.id, log.from_platform) - a[1])
                   /\ HasAccount(c, log.to_platform) =>
                        BudgetOf(ad_accounts', c.id, log.to_platform)
                          = BudgetOf(ad_accounts, c.id, log.to_platform) + a[1]
             /\ (AmountTruthy(a) /\ log.from_platform = log.to_platform
                   /\ HasAccount(c, log.from_platform)) =>
                   BudgetOf(ad_accounts', c.id, log.from_platform)
                     = Max(0, BudgetOf(ad_accounts, c.id, log.from_platform) - a[1]) + a[1]
             /\ (a # Absent /\ a[1] > 0) =>
                   NoBudgetMadeNegative
  ]_vars

\* the request last served applied log id for the agent
LastApplied(id) ==
  \E r \in DOMAIN req :
    /\ req[r].op = "apply_optimization" /\ req[r].http = 200
    /\ req[r].caller = AGENT_ID /\ req[r].event = <<id>>
\* an amount of 500 was moved from the meta account, which had 300, to the
\* google account
C22_Witness ==
  /\ LastApplied(1)
  /\ logs[1].from_platform = "meta" /\ logs[1].to_platform = "google"
  /\ logs[1].amount_shifted = <<500>> /\ logs[1].was_applied
  /\ BudgetOf(ad_accounts, AGENT_ID, "meta") = 0
  /\ BudgetOf(ad_accounts, AGENT_ID, "google") = 600

\* the sum of the budgets of the agent's accounts on the two platforms
TotalBudget(accounts, c, log) ==
  BudgetOf(accounts, c.id, log.from_platform) + BudgetOf(accounts, c.id, log.to_platform)
BothDistinct(c, log) ==
  /\ HasAccount(c, log.from_platform) /\ HasAccount(c, log.to_platform)
  /\ log.from_platform # log.to_platform
  /\ AmountTruthy(log.amount_shifted)

\* C28 as stated: when source and destination both exist, are distinct and
\* the amount does not exceed the source's budget, the sum of the two
\* budgets is the same before and after; and whenever both exist and
\* are distinct, whatever the amount, the destination gains what the
\* source loses.
C28_TotalConservedAndGainEqualsLoss ==
  [][\A c \in AdCallers, id \in 1..MaxLogs :
       (Applied(c, id) /\ BothDistinct(c, logs[id])) =>
         LET log == logs[id]
             a == log.amount_shifted[1]
             source == BudgetOf(ad_accounts, c.id, log.from_platform)
             destination == BudgetOf(ad_accounts, c.id, log.to_platform)
         IN  /\ a <= source =>
                   TotalBudget(ad_accounts', c, log) = TotalBudget(ad_accounts, c, log)
             /\ BudgetOf(ad_accounts', c.id, log.to_platform) - destination
                   = source - BudgetOf(ad_accounts', c.id, log.from_platform)
  ]_vars

\* C28 amended: under those conditions the sum is conserved and the
\* destination gains what the source loses; when the amount exceeds the
\* source's budget the destination gains the amount, the source loses
\* only its budget, and the sum grows by the difference.
C28_TotalGrowsByUncoveredAmount ==
  [][\A c \in AdCallers, id \in 1..MaxLogs :
       (Applied(c, id) /\ BothDistinct(c, logs[id])) =>
         LET log == logs[id]
             a == log.amount_shifted[1]
             source == BudgetOf(ad_accounts, c.id, log.from_platform)
             destination == BudgetOf(ad_accounts, c.id, log.to_platform)
         IN  /\ BudgetOf(ad_accounts', c.id, log.to_platform) - destination = a
             /\ source - BudgetOf(ad_accounts', c.id, log.from_platform)
                   = IF a <= source THEN a ELSE source
             /\ TotalBudget(ad_accounts', c, log)
                   = TotalBudget(ad_accounts, c, log)
                       + (IF a <= source THEN 0 ELSE a - source)
  ]_vars

\* 100 was moved from the meta account, which had 300, to the google
\* account, which had 100
C28_Witness ==
  /\ LastApplied(1)
  /\ logs[1].from_platform = "meta" /\ logs[1].to_platform = "google"
  /\ logs[1].amount_shifted = <<100>>
  /\ BudgetOf(ad_accounts, AGENT_ID, "meta") = 200
  /\ BudgetOf(ad_accounts, AGENT_ID, "google") = 200

\* C29: applying a log whose was_applied is already true changes no budget.
C29_AppliedLogIsNotAppliedAgain ==
  [][\A c \in AdCallers, id \in 1..MaxLogs :
       (Applied(c, id) /\ logs[id].was_applied) => ad_accounts' = ad_accounts
  ]_vars

\* the rows of the conversation that a reader sees
Stored == Committed(messages)
StoredIds(rows) == {rows[i].id : i \in 1..Len(rows)}
RowOf(rows, id) == CHOOSE m \in {rows[i] : i \in 1..Len(rows)} : m.id = id
\* the step deletes the lead
LeadDeleted == lead.exists /\ ~lead'.exists

\* C23 as stated: no step changes a field of a stored message; the stored
\* sequence only grows at its end; messages go only with their lead.
C23_MessagesImmutableAppendOnly ==
  [][IF LeadDeleted THEN messages' = <<>>
     ELSE /\ Len(Committed(messages')) >= Len(Stored)
          /\ SubSeq(Committed(messages'), 1, Len(Stored)) = Stored
  ]_vars

\* C23 amended: no step removes a stored message except the lead's
\* deletion, and none changes a field of one other than is_read, which
\* changes only from false to true and only on a lead-role message; the
\* stored messages stay in creation order, a message that becomes stored
\* taking its place in that order.
C23_OnlyIsReadChangesAndOrderIsCreation ==
  [][IF LeadDeleted THEN messages' = <<>>
     ELSE /\ \A id \in StoredIds(Stored) :
               /\ id \in StoredIds(Committed(messages'))
               /\ LET m == RowOf(Stored, id)
                      n == RowOf(Committed(messages'), id)
                  IN  /\ [n EXCEPT !.is_read = m.is_read] = m
                      /\ n.is_read # m.is_read => (m.role = "lead" /\ n.is_read)
          /\ \A i, j \in 1..Len(Committed(messages')) :
               i < j => Committed(messages')[i].id < Committed(messages')[j].id
  ]_vars

\* a stored inbound message was marked read, and the inbound message of an
\* overlapping turn, created before it, is stored as well
C23_Witness ==
  /\ Len(Stored) = 4
  /\ \E i \in 1..Len(Stored) :
       Stored[i].role = "lead" /\ Stored[i].is_read /\ Stored[i].id = 2
  /\ Stored[1].role = "lead" /\ ~Stored[1].is_read

\* C24: the lead's status is always one of new, cold, warm, hot, converted,
\* lost, in the stored row and in the row a completed turn wrote; a status
\* outside the enumeration in the model's tail never reaches the lead.
C24_StatusStaysInEnumeration ==
  /\ lead.status \in LeadStatus
  /\ \A r \in Completed : req[r].after.status \in LeadStatus

\* the model reported a status outside the enumeration and the turn was
\* rolled back
C24_Witness ==
  \E r \in DOMAIN req :
    /\ req[r].pc = "raised"
    /\ req[r].reply.status # Absent
    /\ req[r].reply.status[1] \notin LeadStatus
    /\ lead.exists /\ lead.status = req[r].lead.status

\* a step in which the webhook answers a delivery of payload with code
Delivered(payload, code) ==
  \E r \in DOMAIN req : MetaLeadWebhook(r, payload) /\ req'[r].http = code

LeadRow(id) == CHOOSE row \in {leads[i] : i \in 1..Len(leads)} : row.id = id

\* C26: every enrollment links a campaign and a lead of the same agent.
C26_EnrollmentStaysWithinTenant ==
  \A e \in enrollments : LeadRow(e.lead_id).agent_id = CampaignOwner(e.campaign_id)

\* C27: a call of score_lead_from_profile never raises and returns an
\* integer of 0..100: the digits of the reply clipped to the range, and 25
\* when the model call failed or the reply has no digit.
C27_ProfileScoreIsTotalAndInRange ==
  \A r \in DOMAIN req :
    req[r].op = "score_lead_from_profile" =>
      LET in == req[r].event[1]
          out == req[r].event[2]
      IN  /\ ~out.raised
          /\ out.score[1] \in SCORE_MIN..SCORE_MAX
          /\ (~in.ok \/ ~HasDigit(in.text)) => out.score[1] = DEFAULT_PROFILE_SCORE
          /\ (in.ok /\ HasDigit(in.text)) =>
                out.score[1] = Min(100, Max(0, DigitsValue(in.text, 0)))

\* C30: after a customer.subscription.deleted event of the agent's customer
\* left the agent canceled, the agent is refused by
\* require_active_subscription, and the next event leaves the agent
\* canceled unless it is a subscription created or updated event.
C30_CanceledUntilSubscriptionEvent ==
  [][\A r \in DOMAIN req :
       ( /\ req[r].op = "webhook" /\ req[r].http = 200
         /\ req[r].event[1].type = "customer.subscription.deleted"
         /\ req[r].event[1].customer
         /\ agent.subscription_status = "canceled" )
       => /\ ~RequireActiveSubscription(agent)
          /\ \/ agent'.subscription_status = "canceled"
             \/ req'[r].event[1].type \in {"customer.subscription.created",
                                            "customer.subscription.updated"}
  ]_vars

====
